---- MODULE Spec2Model ----
(***************************************************************************)
(* Utterance pipeline of cltl.triple_extraction.api: Chat.add_utterance,   *)
(* Utterance.__init__ (hypothesis selection, tokenization) and Parser      *)
(* (tagging, grammar extension, recursive-descent parsing, constituents).  *)
(* Strings are sequences of one-character strings, so that startswith,     *)
(* replace, split and the substring test `in` are computed as Python does. *)
(***************************************************************************)
EXTENDS Integers, Sequences, FiniteSets, TLC

VARIABLES utterances, GRAMMAR, POS_TAGGER, cfgFile, hypotheses, pc, utt, pos,
          exc, returned, locals, bot

vars == <<utterances, GRAMMAR, POS_TAGGER, cfgFile, hypotheses, pc, utt, pos,
          exc, returned, locals, bot>>

\* ------------------------------------------------------------------------
\* Bounds of the model
\* ------------------------------------------------------------------------
MaxTurns == 2

MaxHyps == 2

MaxTrees == 2

MaxPhrases == 2

MaxTokens == 2

MaxReplies == 2

MaxStatements == 1

\* ------------------------------------------------------------------------
\* Python str / list primitives
\* ------------------------------------------------------------------------
Upper == <<"A", "B", "C", "D", "E", "F", "G", "H", "I", "J", "K", "L", "M",
           "N", "O", "P", "Q", "R", "S", "T", "U", "V", "W", "X", "Y", "Z">>

Lower == <<"a", "b", "c", "d", "e", "f", "g", "h", "i", "j", "k", "l", "m",
           "n", "o", "p", "q", "r", "s", "t", "u", "v", "w", "x", "y", "z">>

Whitespace == {" ", "\n", "\t"}

isupper(c) == \E i \in 1..Len(Upper) : Upper[i] = c

lowerChar(c) ==
  IF isupper(c) THEN Lower[CHOOSE i \in 1..Len(Upper) : Upper[i] = c] ELSE c

lower(s) == [i \in 1..Len(s) |-> lowerChar(s[i])]

startswith(s, p) == Len(p) <= Len(s) /\ SubSeq(s, 1, Len(p)) = p

\* sub in s, for Python strings
contains(s, sub) ==
  \E i \in 1..(Len(s) - Len(sub) + 1) : SubSeq(s, i, i + Len(sub) - 1) = sub

\* s.replace(old, new): every non-overlapping occurrence, left to right
RECURSIVE replace(_, _, _)
replace(s, old, new) ==
  IF s = <<>> \/ old = <<>> THEN s
  ELSE IF startswith(s, old)
       THEN new \o replace(SubSeq(s, Len(old) + 1, Len(s)), old, new)
       ELSE <<s[1]>> \o replace(Tail(s), old, new)

\* s.split(): maximal runs of non-whitespace characters
RECURSIVE splitFrom(_, _)
splitFrom(s, word) ==
  IF s = <<>> THEN (IF word = <<>> THEN <<>> ELSE <<word>>)
  ELSE IF s[1] \in Whitespace
       THEN (IF word = <<>> THEN <<>> ELSE <<word>>) \o splitFrom(Tail(s), <<>>)
       ELSE splitFrom(Tail(s), Append(word, s[1]))

split(s) == splitFrom(s, <<>>)

\* sep.join(words)
RECURSIVE join(_, _)
join(sep, words) ==
  IF words = <<>> THEN <<>>
  ELSE IF Len(words) = 1 THEN words[1]
  ELSE words[1] \o sep \o join(sep, Tail(words))

\* s.strip()
RECURSIVE lstrip(_)
lstrip(s) == IF s # <<>> /\ s[1] \in Whitespace THEN lstrip(Tail(s)) ELSE s

RECURSIVE rstrip(_)
rstrip(s) ==
  IF s # <<>> /\ s[Len(s)] \in Whitespace
  THEN rstrip(SubSeq(s, 1, Len(s) - 1)) ELSE s

strip(s) == rstrip(lstrip(s))

\* list.index(x) (1-based here), for x in list
index(list, x) == CHOOSE i \in 1..Len(list) :
                    list[i] = x /\ \A j \in 1..(i - 1) : list[j] # x

inList(list, x) == \E i \in 1..Len(list) : list[i] = x

removeAt(list, i) == SubSeq(list, 1, i - 1) \o SubSeq(list, i + 1, Len(list))

insertAt(list, i, x) ==
  SubSeq(list, 1, i - 1) \o <<x>> \o SubSeq(list, i, Len(list))

\* nltk.edit_distance(s1, s2): Levenshtein distance, substitution cost 1
Min2(a, b) == IF a <= b THEN a ELSE b

\* one row of the distance table: row[j + 1] is the distance between the
\* first i characters of s1 and the first j characters of s2
RECURSIVE editRow(_, _, _, _)
editRow(prev, c, s2, row) ==
  IF Len(row) = Len(prev) THEN row
  ELSE LET j == Len(row)
           sub == prev[j] + (IF c = s2[j] THEN 0 ELSE 1)
       IN editRow(prev, c, s2,
                  Append(row, Min2(sub, Min2(prev[j + 1] + 1, row[j] + 1))))

RECURSIVE editRows(_, _, _, _)
editRows(prev, s1, s2, i) ==
  IF i > Len(s1) THEN prev
  ELSE editRows(editRow(prev, s1[i], s2, <<i>>), s1, s2, i + 1)

edit_distance(s1, s2) ==
  editRows([j \in 1..(Len(s2) + 1) |-> j - 1], s1, s2, 1)[Len(s2) + 1]

\* ------------------------------------------------------------------------
\* Confidences: floats are modelled as fractions <<numerator, denominator>>
\* ------------------------------------------------------------------------
RECURSIVE gcd(_, _)
gcd(a, b) == IF b = 0 THEN a ELSE gcd(b, a % b)

frac(n, d) == IF n = 0 THEN <<0, 1>> ELSE <<n \div gcd(n, d), d \div gcd(n, d)>>

fracMul(a, b) == frac(a[1] * b[1], a[2] * b[2])

fracLess(a, b) == a[1] * b[2] < b[1] * a[2]

fracLeq(a, b) == a[1] * b[2] <= b[1] * a[2]

UtteranceHypothesis(transcript, confidence) ==
  [transcript |-> transcript, confidence |-> confidence]

\* ------------------------------------------------------------------------
\* Hypothesis Selector
\* ------------------------------------------------------------------------
\* the name list `friends` of cltl.triple_extraction.data.base_cases
friends == << <<"L", "e", "n", "k", "a">>, <<"P", "i", "e", "k">> >>

max_name_distance == 2

\* position of the first name at minimum distance: sorted(..., key=distance)[0]
closestIndexLast(word, names) ==
  CHOOSE i \in 1..Len(names) :
    /\ \A j \in 1..Len(names) :
         edit_distance(names[i], word) <= edit_distance(names[j], word)
    /\ \A j \in (i + 1)..Len(names) :
         edit_distance(names[j], word) > edit_distance(names[i], word)

closestIndex(word, names) ==
  CHOOSE i \in 1..Len(names) :
    /\ \A j \in 1..Len(names) :
         edit_distance(names[i], word) <= edit_distance(names[j], word)
    /\ \A j \in 1..(i - 1) :
         edit_distance(names[j], word) > edit_distance(names[i], word)

\* Utterance._get_closest_name; <<>> stands for the None result
_get_closest_name(word, names) ==
  IF isupper(word[1]) /\ names # <<>>
  THEN LET i == closestIndex(word, names)
       IN IF edit_distance(names[i], word) <= max_name_distance
          THEN names[i] ELSE <<>>
  ELSE <<>>

\* first loop of _patch_names for one transcript: the patched word list
patchWords(transcript) ==
  LET words == split(transcript)
  IN [i \in 1..Len(words) |->
        LET name == _get_closest_name(words[i], friends)
        IN IF name # <<>> THEN name ELSE words[i]]

\* the names appended to `names` while patching one transcript, in order
RECURSIVE matchedIn(_)
matchedIn(words) ==
  IF words = <<>> THEN <<>>
  ELSE LET name == _get_closest_name(words[1], friends)
       IN (IF name # <<>> THEN <<name>> ELSE <<>>) \o matchedIn(Tail(words))

RECURSIVE matchedNames(_)
matchedNames(hyps) ==
  IF hyps = <<>> THEN <<>>
  ELSE matchedIn(split(hyps[1].transcript)) \o matchedNames(Tail(hyps))

\* Counter(names)[name]
count(names, name) == Cardinality({i \in 1..Len(names) : names[i] = name})

max_freqTotal(names) == Len(names)

max_freq(names) ==
  CHOOSE m \in {count(names, names[i]) : i \in 1..Len(names)} :
    \A i \in 1..Len(names) : count(names, names[i]) <= m

\* list(names.keys()): distinct names in order of first occurrence
RECURSIVE keys(_)
keys(names) ==
  IF names = <<>> THEN <<>>
  ELSE LET rest == keys(SubSeq(names, 1, Len(names) - 1))
           last == names[Len(names)]
       IN IF inList(rest, last) THEN rest ELSE Append(rest, last)

\* float(names[name]) / float(max_freq)
nameFactorInverted(names, name) == frac(max_freq(names), count(names, name))

nameFactor(names, name) == frac(count(names, name), max_freq(names))

\* inner loop of the reweighting: one hypothesis, all counted names
reweightOnce(confidence, transcript, names, ks) ==
  IF ks # <<>> /\ contains(transcript, ks[1])
  THEN fracMul(confidence, nameFactor(names, ks[1]))
  ELSE confidence

RECURSIVE reweight(_, _, _, _)
reweight(confidence, transcript, names, ks) ==
  IF ks = <<>> THEN confidence
  ELSE reweight(IF contains(transcript, ks[1])
                THEN fracMul(confidence, nameFactor(names, ks[1]))
                ELSE confidence,
                transcript, names, Tail(ks))

\* Utterance._patch_names
_patch_names(hyps) ==
  LET names == matchedNames(hyps)
  IN [i \in 1..Len(hyps) |->
        LET transcript == join(<<" ">>, patchWords(hyps[i].transcript))
        IN UtteranceHypothesis(
             transcript,
             IF names # <<>>
             THEN reweight(hyps[i].confidence, transcript, names, keys(names))
             ELSE hyps[i].confidence)]

\* sorted(..., key=confidence, reverse=True): stable, equal keys keep order.
\* Works on positions so that the chosen input is known.
RECURSIVE sortedDescUnstable(_, _)
sortedDescUnstable(hyps, n) ==
  IF n = 0 THEN <<>>
  ELSE LET prev == sortedDescUnstable(hyps, n - 1)
           k == Cardinality({j \in 1..Len(prev) :
                  fracLess(hyps[n].confidence, hyps[prev[j]].confidence)})
       IN insertAt(prev, k + 1, n)

RECURSIVE sortedDesc(_, _)
sortedDesc(hyps, n) ==
  IF n = 0 THEN <<>>
  ELSE LET prev == sortedDesc(hyps, n - 1)
           k == Cardinality({j \in 1..Len(prev) :
                  fracLeq(hyps[n].confidence, hyps[prev[j]].confidence)})
       IN insertAt(prev, k + 1, n)

\* position in the input of the hypothesis _choose_hypothesis returns;
\* 0 when sorted(...)[0] raises IndexError
chosenIndex(hyps) ==
  LET patched == _patch_names(hyps)
      order == sortedDesc(patched, Len(patched))
  IN IF order = <<>> THEN 0 ELSE order[1]

chooseUnpatched(hyps) == hyps[chosenIndex(hyps)]

_choose_hypothesis(hyps) == _patch_names(hyps)[chosenIndex(hyps)]

\* ------------------------------------------------------------------------
\* Token Normalizer
\* ------------------------------------------------------------------------
openers ==
  << <<"L", "e", "o", "l", "a", "n", "i">>,
     <<"S", "o", "r", "r", "y">>,
     <<"E", "x", "c", "u", "s", "e", " ", "m", "e">>,
     <<"H", "e", "y">>,
     <<"H", "e", "l", "l", "o">>,
     <<"H", "i">> >>

introductions ==
  << <<"C", "a", "n", " ", "y", "o", "u", " ", "t", "e", "l", "l", " ", "m", "e">>,
     <<"D", "o", " ", "y", "o", "u", " ", "k", "n", "o", "w">>,
     <<"P", "l", "e", "a", "s", "e", " ", "t", "e", "l", "l", " ", "m", "e">>,
     <<"D", "o", " ", "y", "o", "u", " ", "m", "a", "y", "b", "e", " ", "k", "n", "o", "w">> >>

questionWords ==
  { <<"w", "h", "a", "t">>, <<"t", "h", "a", "t">>, <<"w", "h", "o">>,
    <<"w", "h", "e", "n">>, <<"w", "h", "e", "r", "e">>,
    <<"w", "h", "i", "c", "h">> }

\* body of `for o in openers`
stripOpenerAnywhere(transcript, o) ==
  replace(replace(transcript, o, <<>>), lower(o), <<>>)

stripOpener(transcript, o) ==
  LET t1 == IF startswith(transcript, o)
            THEN replace(transcript, o, <<>>) ELSE transcript
  IN IF startswith(t1, lower(o)) THEN replace(t1, lower(o), <<>>) ELSE t1

RECURSIVE stripOpeners(_, _)
stripOpeners(transcript, os) ==
  IF os = <<>> THEN transcript
  ELSE stripOpeners(stripOpener(transcript, os[1]), Tail(os))

\* one `if transcript.startswith(...)` block of `for i in introductions`;
\* tmp.split()[0] raises IndexError when nothing follows the phrase
stripIntroForm(r, phrase, lowered) ==
  IF r.raised \/ ~startswith(r.transcript, phrase) THEN r
  ELSE LET tmp == replace(r.transcript, phrase, <<>>)
       IN IF split(tmp) = <<>>
          THEN [raised |-> TRUE, transcript |-> r.transcript]
          ELSE LET first_word == split(tmp)[1]
                   w == IF lowered THEN lower(first_word) ELSE first_word
               IN IF w \in questionWords
                  THEN [raised |-> FALSE, transcript |-> tmp]
                  ELSE r

RECURSIVE stripIntroductions(_, _)
stripIntroductions(r, is) ==
  IF is = <<>> THEN r
  ELSE stripIntroductions(
         stripIntroForm(stripIntroForm(r, is[1], FALSE), lower(is[1]), TRUE),
         Tail(is))

\* Utterance.replace_token: the first occurrence only
replace_token(tokens_raw, old, new) ==
  IF inList(tokens_raw, old)
  THEN LET i == index(tokens_raw, old)
       IN insertAt(removeAt(tokens_raw, i), i, new)
  ELSE tokens_raw

contractions ==
  << << <<"m">>, <<"a", "m">> >>,
     << <<"r", "e">>, <<"a", "r", "e">> >>,
     << <<"l", "l">>, <<"w", "i", "l", "l">> >> >>

negations ==
  << << <<"w", "o", "n">>, <<"w", "i", "l", "l">> >>,
     << <<"d", "o", "n">>, <<"d", "o">> >>,
     << <<"d", "o", "e", "s", "n">>, <<"d", "o", "e", "s">> >>,
     << <<"d", "i", "d", "n">>, <<"d", "i", "d">> >>,
     << <<"h", "a", "v", "e", "n">>, <<"h", "a", "v", "e">> >>,
     << <<"w", "o", "u", "l", "d", "n">>, <<"w", "o", "u", "l", "d">> >>,
     << <<"a", "r", "e", "n">>, <<"a", "r", "e">> >> >>

RECURSIVE replaceAll(_, _)
replaceAll(tokens_raw, pairs) ==
  IF pairs = <<>> THEN tokens_raw
  ELSE replaceAll(replace_token(tokens_raw, pairs[1][1], pairs[1][2]),
                  Tail(pairs))

expandContractionsNots(tokens_raw) ==
  IF inList(tokens_raw, <<"t">>)
  THEN replaceAll(replace_token(tokens_raw, <<"t">>, <<"n", "o", "t">>),
                  negations)
  ELSE tokens_raw

expandContractions(tokens_raw) ==
  LET t1 == replaceAll(tokens_raw, contractions)
  IN IF inList(t1, <<"t">>)
     THEN replaceAll(replace_token(t1, <<"t">>, <<"n", "o", "t">>), negations)
     ELSE t1

isTags == { <<"D", "T">>, <<"J", "J">>, <<"I", "N">> }

\* the 's' block; stag is what pos_tag returns for the following token,
\* or NoTag when the call raises
NoTag == <<>>

resolveSAlwaysIs(tokens_raw, stag) ==
  replace_token(tokens_raw, <<"s">>, <<"i", "s">>)

resolveS(tokens_raw, stag) ==
  IF inList(tokens_raw, <<"s">>)
  THEN LET i == index(tokens_raw, <<"s">>)
       IN IF i + 1 > Len(tokens_raw) \/ stag = NoTag
          THEN removeAt(tokens_raw, i)
          ELSE IF stag \in isTags \/ startswith(stag, <<"V">>)
               THEN insertAt(removeAt(tokens_raw, i), i, <<"i", "s">>)
               ELSE removeAt(tokens_raw, i)
  ELSE tokens_raw

\* Utterance._tokenize
_tokenize(transcript, stag) ==
  LET r == stripIntroductions(
             [raised |-> FALSE,
              transcript |-> stripOpeners(transcript, openers)],
             introductions)
  IN IF r.raised
     THEN [raised |-> TRUE, tokens |-> <<>>]
     ELSE [raised |-> FALSE,
           tokens |-> resolveS(
                        expandContractions(
                          split(replace(r.transcript, <<"'">>, <<" ">>))),
                        stag)]

\* Utterance._clean
_clean(tokens) == tokens

\* ------------------------------------------------------------------------
\* Tagger Adapter
\* ------------------------------------------------------------------------
tagDT == <<"D", "T">>

tagWDT == <<"W", "D", "T">>

tagNN == <<"N", "N">>

tagNNP == <<"N", "N", "P">>

tagIN == <<"I", "N">>

tagVB == <<"V", "B">>

tagVBD == <<"V", "B", "D">>

tagPRPS == <<"P", "R", "P", "$">>

tagWPS == <<"W", "P", "$">>

tagComma == <<",">>

Tags ==
  {tagDT, tagWDT, tagNN, tagNNP, tagIN, tagVB, tagVBD, tagPRPS, tagWPS, tagComma}

\* the tags the primary tagger may give a token
possibleTags(word) ==
  CASE word = <<"a">> -> {tagDT}
    [] word = <<"t", "h", "a", "t">> -> {tagDT, tagWDT}
    [] word = <<"l", "i", "k", "e">> -> {tagIN, tagVB}
    [] word = <<"D", "o", "e", "s">> -> {tagNNP, tagVBD}
    [] word = <<"m", "y">> -> {tagPRPS}
    [] word = <<"w", "h", "o", "s", "e">> -> {tagWPS}
    [] word = <<",">> -> {tagComma}
    [] OTHER -> {tagNN}

\* POS_TAGGER.tag(tokens): the (word, tag) lists the tagger may return
taggings(tokens) ==
  { [i \in 1..Len(tokens) |-> <<tokens[i], t[i]>>] :
      t \in { f \in [1..Len(tokens) -> Tags] :
                \A i \in 1..Len(tokens) : f[i] \in possibleTags(tokens[i]) } }

\* fixing issues with POS tagger (Does and like)
fixTagsDoesOnly(tokenized_sentence, tagged) ==
  IF tagged # <<>> /\ tagged[1][1] = <<"D", "o", "e", "s">>
  THEN [tagged EXCEPT ![1] = <<tagged[1][1], tagVBD>>]
  ELSE tagged

fixTags(tokenized_sentence, tagged) ==
  LET liked == [i \in 1..Len(tagged) |->
                  IF tokenized_sentence[i] = <<"l", "i", "k", "e">>
                  THEN <<tokenized_sentence[i], tagVB>> ELSE tagged[i]]
  IN IF liked # <<>> /\ liked[1][1] = <<"D", "o", "e", "s">>
     THEN [liked EXCEPT ![1] = <<liked[1][1], tagVBD>>]
     ELSE liked

\* ------------------------------------------------------------------------
\* Dynamic Grammar Builder
\* ------------------------------------------------------------------------
arrowQuote == <<" ", "-", ">", " ", "'">>

quoteNewline == <<"'", "\n">>

POSsuffix == <<"P", "O", "S">>

PRPPOS == <<"P", "R", "P", "P", "O", "S">>

endswith(s, c) == s # <<>> /\ s[Len(s)] = c

\* s[:-1]
dropLast(s) == SubSeq(s, 1, Len(s) - 1)

\* the word quoted in the rule: `if '?' in word: word = word[:-1]`
ruleWordQuoted(word) == word

ruleWord(word) == IF inList(word, "?") THEN dropLast(word) ELSE word

\* the nonterminal on the left of the rule
ruleTag(tag) == IF endswith(tag, "$") THEN dropLast(tag) \o POSsuffix ELSE tag

new_rule(word, tag) ==
  ruleTag(tag) \o arrowQuote \o ruleWord(word) \o quoteNewline

\* `if new_rule not in self._cfg: self._cfg += new_rule`
addRuleUnchecked(cfg, rule) == cfg \o rule

addRule(cfg, rule) == IF contains(cfg, rule) THEN cfg ELSE cfg \o rule

\* the loop `for word, tag in pos` over the first n pairs: the grammar text
RECURSIVE extendCfg(_, _, _)
extendCfg(cfg, tagged, n) ==
  IF n = 0 THEN cfg
  ELSE addRule(extendCfg(cfg, tagged, n - 1),
               new_rule(tagged[n][1], tagged[n][2]))

\* the same loop: the tag list it leaves behind
extendPos(tagged) ==
  [i \in 1..Len(tagged) |->
     IF endswith(tagged[i][2], "$") THEN <<tagged[i][1], PRPPOS>> ELSE tagged[i]]

\* ------------------------------------------------------------------------
\* Recursive-Descent Parser (nltk CFG.fromstring, RecursiveDescentParser)
\* ------------------------------------------------------------------------
Digits == {"0", "1", "2", "3", "4", "5", "6", "7", "8", "9"}

isWordChar(c) == isupper(c) \/ (\E i \in 1..Len(Lower) : Lower[i] = c)
                   \/ c \in Digits \/ c = "_"

\* text.split('\n')
RECURSIVE splitLines(_, _)
splitLines(text, line) ==
  IF text = <<>> THEN <<line>>
  ELSE IF text[1] = "\n" THEN <<line>> \o splitLines(Tail(text), <<>>)
  ELSE splitLines(Tail(text), Append(line, text[1]))

isNonterminal(sym) ==
  /\ sym # <<>>
  /\ isWordChar(sym[1]) \/ sym[1] = "/"
  /\ \A i \in 2..Len(sym) : isWordChar(sym[i]) \/ sym[i] \in {"/", "^", "<", ">", "-"}

isTerminal(sym) ==
  /\ Len(sym) >= 2
  /\ sym[1] = "'" /\ sym[Len(sym)] = "'"
  /\ \A i \in 2..(Len(sym) - 1) : sym[i] # "'"

\* a production line nltk can read: NT -> symbols, alternatives after |
wellFormedLine(line) ==
  LET syms == split(line)
  IN \/ syms = <<>>
     \/ /\ Len(syms) >= 2
        /\ isNonterminal(syms[1])
        /\ syms[2] = <<"-", ">">>
        /\ \A i \in 3..Len(syms) :
             isNonterminal(syms[i]) \/ isTerminal(syms[i]) \/ syms[i] = <<"|">>

\* CFG.fromstring(text) returns a grammar (TRUE) or raises ValueError (FALSE)
compiles(text) ==
  LET lines == splitLines(text, <<>>)
  IN /\ \A i \in 1..Len(lines) : wellFormedLine(lines[i])
     /\ \E i \in 1..Len(lines) : split(lines[i]) # <<>>

\* the words the compiled grammar has a terminal for
terminals(text) ==
  LET lines == splitLines(text, <<>>)
      syms(i) == split(lines[i])
  IN UNION { { dropLast(Tail(syms(i)[j])) :
                 j \in { k \in 3..Len(syms(i)) : isTerminal(syms(i)[k]) } } :
             i \in 1..Len(lines) }

\* grammar.check_coverage(tokens) passes
covers(text, tokens) ==
  \A i \in 1..Len(tokens) : tokens[i] \in terminals(text)

\* nltk Tree and its str leaves
Tree(label, kids) == [label |-> label, kids |-> kids]

Leaf(token) == [leaf |-> token]

isTree(n) == "label" \in DOMAIN n

RECURSIVE leaves(_)
RECURSIVE leavesOf(_)
leavesOf(kids) ==
  IF kids = <<>> THEN <<>> ELSE leaves(kids[1]) \o leavesOf(Tail(kids))

leaves(n) == IF isTree(n) THEN leavesOf(n.kids) ELSE <<n.leaf>>

labelROOT == <<"R", "O", "O", "T">>

labelS == <<"S">>

labelNP == <<"N", "P">>

labelVP == <<"V", "P">>

\* preterminal subtrees of tokens i..j under the rules of this utterance
preterminals(tokens, tagged, i, j) ==
  [k \in 1..(j - i + 1) |->
     Tree(ruleTag(tagged[i + k - 1][2]), <<Leaf(tokens[i + k - 1])>>)]

\* ROOT over S over a subject phrase of k tokens and a predicate phrase
deepTree(tokens, tagged, k) ==
  LET n == Len(tokens)
      np == Tree(labelNP, preterminals(tokens, tagged, 1, k))
      vp == Tree(labelVP, preterminals(tokens, tagged, k + 1, n))
  IN Tree(labelROOT, <<Tree(labelS, IF k < n THEN <<np, vp>> ELSE <<np>>)>>)

\* S directly over one phrase of preterminals
flatTree(tokens, tagged) ==
  Tree(labelS, <<Tree(labelNP, preterminals(tokens, tagged, 1, Len(tokens)))>>)

\* derivations a base grammar may give the tokens, in the order found
derivations(tokens, tagged) ==
  IF Len(tokens) = 1
  THEN <<deepTree(tokens, tagged, 1), flatTree(tokens, tagged)>>
  ELSE <<deepTree(tokens, tagged, 1), deepTree(tokens, tagged, Len(tokens)),
         flatTree(tokens, tagged)>>

\* the forests rd.parse(tokens) may yield for covered, non-empty tokens
forests(tokens, tagged) ==
  LET d == derivations(tokens, tagged)
  IN { SubSeq(d, 1, k) : k \in 0..Min2(MaxTrees, Len(d)) }
       \cup { <<flatTree(tokens, tagged)>> }

\* ------------------------------------------------------------------------
\* Constituent Extractor
\* ------------------------------------------------------------------------
\* `for node in branch: for leaf in node.leaves(): raw += leaf + '-'`
RECURSIVE hyphenated(_)
hyphenated(words) ==
  IF words = <<>> THEN <<>>
  ELSE words[1] \o <<"-">> \o hyphenated(Tail(words))

RECURSIVE rawOf(_)
rawOf(nodes) ==
  IF nodes = <<>> THEN <<>>
  ELSE hyphenated(leaves(nodes[1])) \o rawOf(Tail(nodes))

\* one entry of s_r, with raw[:-1] and the final strip()
constituentTrailingHyphen(branch) ==
  [label |-> branch.label, structure |-> branch,
   raw |-> strip(rawOf(branch.kids))]

constituent(branch) ==
  [label |-> branch.label, structure |-> branch,
   raw |-> strip(dropLast(rawOf(branch.kids)))]

RECURSIVE branchEntries(_)
branchEntries(branches) ==
  IF branches = <<>> THEN <<>>
  ELSE <<constituent(branches[1])>> \o branchEntries(Tail(branches))

\* `for tree in forest[0]: for branch in tree:` the entries in key order
RECURSIVE treeEntries(_)
treeEntries(trees) ==
  IF trees = <<>> THEN <<>>
  ELSE (IF isTree(trees[1]) THEN branchEntries(trees[1].kids) ELSE <<>>)
         \o treeEntries(Tail(trees))

\* branch.label() or node.leaves() is called on a str: AttributeError
branchRaises(branch) ==
  \/ ~isTree(branch)
  \/ \E i \in 1..Len(branch.kids) : ~isTree(branch.kids[i])

extractRaises(root) ==
  \E i \in 1..Len(root.kids) :
    IF isTree(root.kids[i])
    THEN \E j \in 1..Len(root.kids[i].kids) : branchRaises(root.kids[i].kids[j])
    ELSE root.kids[i].leaf # <<>>

\* ------------------------------------------------------------------------
\* Parser._parse, the try block
\* ------------------------------------------------------------------------
\* tokenized_sentence after `if '?' in last_token: ... = last_token[:-1]`
stripLast(tokens) ==
  IF inList(tokens[Len(tokens)], "?")
  THEN [tokens EXCEPT ![Len(tokens)] = dropLast(tokens[Len(tokens)])]
  ELSE tokens

result(forest, s_r, tokens, outcome) ==
  [forest |-> forest, constituents |-> s_r, tokens |-> tokens,
   outcome |-> outcome]

\* what the except clause returns
caught(tokens, outcome) == result(<<>>, <<>>, tokens, outcome)

\* what the try block does with one forest the parser yields
extractedKeepsForest(forest, tokens) ==
  IF forest = <<>> THEN result(<<>>, <<>>, tokens, "no_forest")
  ELSE IF extractRaises(forest[1])
       THEN result(forest, <<>>, tokens, "extract_error")
  ELSE result(forest, treeEntries(forest[1].kids), tokens, "ok")

extracted(forest, tokens) ==
  IF forest = <<>> THEN result(<<>>, <<>>, tokens, "no_forest")
  ELSE IF extractRaises(forest[1]) THEN caught(tokens, "extract_error")
  ELSE result(forest, treeEntries(forest[1].kids), tokens, "ok")

\* every (forest, constituents) the try/except may return, with the token
\* list it leaves behind and the branch taken
tryBlock(cfg, tokens, tagged) ==
  IF ~compiles(cfg) THEN {caught(tokens, "compile_error")}
  ELSE IF tokens = <<>> THEN {caught(tokens, "index_error")}
  ELSE LET stripped == stripLast(tokens)
       IN IF ~covers(cfg, stripped)
          THEN {caught(stripped, "coverage_error")}
          ELSE {caught(stripped, "parser_error")}
                 \cup { extracted(f, stripped) : f \in forests(stripped, tagged) }

\* ------------------------------------------------------------------------
\* Inputs
\* ------------------------------------------------------------------------
one == <<1, 1>>

half == <<1, 2>>

quarter == <<1, 4>>

tEmpty == <<>>

tDoYouKnow == <<"D", "o", " ", "y", "o", "u", " ", "k", "n", "o", "w">>

tADog == <<"a", " ", "d", "o", "g", "?">>

tAA == <<"a", " ", "a">>

tDogA == <<"d", "o", "g", "?", " ", "a">>

tThatThat == <<"t", "h", "a", "t", " ", "t", "h", "a", "t">>

tDogComma == <<"d", "o", "g", " ", ",">>

tPiek == <<"P", "i", "e", "k">>

tLenkaLenka == <<"L", "e", "n", "k", "a", " ", "L", "e", "n", "k", "a">>

tDog == <<"d", "o", "g">>

tLekHelloDog ==
  <<"L", "e", "k", " ", " ", "H", "e", "l", "l", "o", " ", "d", "o", "g">>

tLenkaLenkaPiek ==
  <<"L", "e", "n", "k", "a", " ", "L", "e", "n", "k", "a", " ", "P", "i", "e", "k">>

tLenca == <<"L", "e", "n", "c", "a">>

\* the hypothesis lists handed to Chat.add_utterance
MainInputs ==
  { <<>>,
    <<UtteranceHypothesis(tEmpty, one)>>,
    <<UtteranceHypothesis(tDoYouKnow, one)>>,
    <<UtteranceHypothesis(tADog, one)>>,
    <<UtteranceHypothesis(tAA, one)>>,
    <<UtteranceHypothesis(tDogA, one)>>,
    <<UtteranceHypothesis(tThatThat, one)>>,
    <<UtteranceHypothesis(tDogComma, one)>>,
    <<UtteranceHypothesis(tPiek, half), UtteranceHypothesis(tADog, half)>> }

\* the hypothesis lists handed to the Hypothesis Selector on its own
SelHypotheses ==
  { UtteranceHypothesis(t, c) :
      t \in {tLenkaLenka, tLenca, tPiek, tDog, tLekHelloDog,
                tLenkaLenkaPiek}, c \in {quarter, half, one} }

SelInputs == UNION { [1..n -> SelHypotheses] : n \in 0..MaxHyps }

\* transcripts handed to the Token Normalizer on its own
tImHappy == <<"I", "'", "m", " ", "h", "a", "p", "p", "y">>

tThatsAChair ==
  <<"t", "h", "a", "t", "'", "s", " ", "a", " ", "c", "h", "a", "i", "r">>

tThomassBook ==
  <<"T", "h", "o", "m", "a", "s", "'", "s", " ", "b", "o", "o", "k">>

TokPhrases ==
  { <<"H", "e", "l", "l", "o">>,
    <<"h", "i">>,
    <<"D", "o", " ", "y", "o", "u", " ", "k", "n", "o", "w">>,
    <<"d", "o", " ", "y", "o", "u", " ", "k", "n", "o", "w">>,
    <<"w", "h", "a", "t">>,
    <<"W", "h", "o">>,
    <<"d", "o", "g">>,
    <<"t", "h", "a", "t", "'", "s">> }

TokInputs ==
  {tImHappy, tThatsAChair, tThomassBook}
    \cup { join(<<" ">>, p) :
             p \in UNION { [1..n -> TokPhrases] : n \in 0..MaxPhrases } }

\* token lists handed to the Parser on its own
ParseWords ==
  { <<"a">>, <<"d", "o", "g", "?">>, <<"l", "i", "k", "e">>,
    <<"D", "o", "e", "s">>, <<"t", "h", "a", "t">>,
    <<"m", "y">>,
    <<"w", "h", "o", "s", "e">> }

ParseInputs == UNION { [1..n -> ParseWords] : n \in 0..MaxTokens }

\* what pos_tag may return for the token after a bare 's'
sTags == {tagDT, tagNN, tagVB, NoTag}

\* the content of data/cfg.txt
goodCfg == <<"S", " ", "-", ">", " ", "N", "P", " ", "V", "P", "\n">>

badCfg == <<"S", " ", "N", "P", "\n">>

unendedCfg == <<"S", " ", "-", ">", " ", "N", "P">>

CfgFiles == {goodCfg, badCfg, unendedCfg}

\* ------------------------------------------------------------------------
\* State
\* ------------------------------------------------------------------------
\* an Utterance whose fields are not set yet
NoUtterance ==
  [turn |-> -1, hypothesis |-> UtteranceHypothesis(<<>>, <<0, 1>>),
   normalized |-> <<>>, tokens |-> <<>>, cfg |-> <<>>, forest |-> <<>>,
   constituents |-> <<>>, outcome |-> "none"]

\* the RLChatbot after __init__, its selector without any call yet
NoBot == [turns |-> 0, thought |-> "None", brain_states |-> <<>>,
          selector |-> [selected |-> {}, updates |-> 0, reward |-> 0],
          raised |-> "none"]

\* the local variables of a running _tokenize call, none running
NoLocals == [transcript |-> <<>>, tokens_raw |-> <<>>, tag |-> <<>>]

Init ==
  /\ utterances = <<>>
  /\ GRAMMAR = <<>>
  /\ POS_TAGGER = "None"
  /\ cfgFile \in CfgFiles
  /\ hypotheses = <<>>
  /\ pc = "idle"
  /\ utt = NoUtterance
  /\ pos = <<>>
  /\ exc = "none"
  /\ returned = NoUtterance
  /\ locals = NoLocals
  /\ bot = NoBot

\* ------------------------------------------------------------------------
\* Chat.add_utterance, step by step
\* ------------------------------------------------------------------------
\* the turn handed to Utterance(self, hypotheses, len(self._utterances))
turnOneBased(chat_utterances) == Len(chat_utterances) + 1

turnOf(chat_utterances) == Len(chat_utterances)

\* add_utterance is called: Utterance.__init__ up to `self._turn = turn`
Call(hyps) ==
  /\ pc \in {"idle", "raised"}
  /\ Len(utterances) < MaxTurns
  /\ hypotheses' = hyps
  /\ utt' = [NoUtterance EXCEPT !.turn = turnOf(utterances)]
  /\ pc' = "called"
  /\ pos' = <<>>
  /\ exc' = "none"
  /\ returned' = NoUtterance
  /\ UNCHANGED <<bot, locals, utterances, GRAMMAR, POS_TAGGER, cfgFile>>

\* self._hypothesis = self._choose_hypothesis(hypotheses)
Choose ==
  /\ pc = "called"
  /\ chosenIndex(hypotheses) # 0
  /\ utt' = [utt EXCEPT !.hypothesis = _choose_hypothesis(hypotheses)]
  /\ pc' = "created"
  /\ UNCHANGED <<bot, locals, utterances, GRAMMAR,
                 POS_TAGGER, cfgFile, hypotheses, pos,
                 exc, returned>>

\* sorted(...)[0] raises IndexError
ChooseRaises ==
  /\ pc = "called"
  /\ chosenIndex(hypotheses) = 0
  /\ pc' = "raised"
  /\ exc' = "selection"
  /\ UNCHANGED <<bot, locals, utterances, GRAMMAR,
                 POS_TAGGER, cfgFile, hypotheses, utt,
                 pos, returned>>

\* self._tokens = self._clean(self._tokenize(self.transcript))
Tokenize ==
  /\ pc = "created"
  /\ \E stag \in sTags :
       LET r == _tokenize(utt.hypothesis.transcript, stag)
       IN /\ ~r.raised
          /\ utt' = [utt EXCEPT !.tokens = _clean(r.tokens),
                                !.normalized = _clean(r.tokens)]
  /\ pc' = "normalized"
  /\ UNCHANGED <<bot, locals, utterances, GRAMMAR,
                 POS_TAGGER, cfgFile, hypotheses, pos,
                 exc, returned>>

TokenizeRaisesAfterAppend ==
  /\ pc = "created"
  /\ \E stag \in sTags : _tokenize(utt.hypothesis.transcript, stag).raised
  /\ utterances' = Append(utterances, utt)
  /\ pc' = "raised"
  /\ exc' = "normalization"
  /\ UNCHANGED <<bot, locals, GRAMMAR, POS_TAGGER, cfgFile, hypotheses, utt, pos,
                 returned>>

\* tmp.split()[0] raises IndexError inside _tokenize
TokenizeRaises ==
  /\ pc = "created"
  /\ \E stag \in sTags : _tokenize(utt.hypothesis.transcript, stag).raised
  /\ pc' = "raised"
  /\ exc' = "normalization"
  /\ UNCHANGED <<bot, locals, utterances, GRAMMAR,
                 POS_TAGGER, cfgFile, hypotheses, utt,
                 pos, returned>>

\* Parser.__init__: POS() raises, nothing is loaded
TaggerInitRaises ==
  /\ pc = "normalized"
  /\ POS_TAGGER = "None"
  /\ pc' = "raised"
  /\ exc' = "tagger_init"
  /\ UNCHANGED <<bot, locals, utterances, GRAMMAR,
                 POS_TAGGER, cfgFile, hypotheses, utt,
                 pos, returned>>

\* Parser.GRAMMAR after `if not Parser.GRAMMAR: Parser.GRAMMAR = cfg_file.read()`
loadedGrowing ==
  IF utterances = <<>> THEN cfgFile ELSE utterances[Len(utterances)].cfg

loaded == IF GRAMMAR = <<>> THEN cfgFile ELSE GRAMMAR

\* Parser.__init__ up to `self._cfg = Parser.GRAMMAR`, then _parse up to the
\* tag fixes: both taggers return
Tag ==
  /\ pc = "normalized"
  /\ POS_TAGGER' = "POS"
  /\ GRAMMAR' = loaded
  /\ utt' = [utt EXCEPT !.cfg = loaded]
  /\ \E tagged \in taggings(utt.tokens) : pos' = fixTags(utt.tokens, tagged)
  /\ pc' = "tagged"
  /\ UNCHANGED <<bot, locals, utterances, cfgFile, hypotheses, exc, returned>>

\* the same, but POS_TAGGER.tag or pos_tag raises
TagRaises ==
  /\ pc = "normalized"
  /\ POS_TAGGER' = "POS"
  /\ GRAMMAR' = loaded
  /\ utt' = [utt EXCEPT !.cfg = loaded]
  /\ pc' = "raised"
  /\ exc' = "tagging"
  /\ UNCHANGED <<bot, locals, utterances, cfgFile, hypotheses, pos, returned>>

\* the loop `for word, tag in pos` that builds self._cfg
ExtendGrammar ==
  /\ pc = "tagged"
  /\ utt' = [utt EXCEPT !.cfg = extendCfg(utt.cfg, pos, Len(pos))]
  /\ pos' = extendPos(pos)
  /\ pc' = "extended"
  /\ UNCHANGED <<bot, locals, utterances, GRAMMAR,
                 POS_TAGGER, cfgFile, hypotheses, exc,
                 returned>>

setParsed(r) ==
  utt' = [utt EXCEPT !.forest = r.forest, !.constituents = r.constituents,
                     !.tokens = r.tokens, !.outcome = r.outcome]

\* the try block runs to `return forest, s_r`
Parse ==
  /\ pc = "extended"
  /\ \E r \in tryBlock(utt.cfg, utt.tokens, pos) :
       /\ r.outcome \in {"ok", "no_forest"}
       /\ setParsed(r)
  /\ pc' = "parsed"
  /\ UNCHANGED <<bot, locals, utterances, GRAMMAR,
                 POS_TAGGER, cfgFile, hypotheses, pos,
                 exc, returned>>

\* the try block raises and `except: return [], {}` runs
ParseExcept ==
  /\ pc = "extended"
  /\ \E r \in tryBlock(utt.cfg, utt.tokens, pos) :
       /\ r.outcome \notin {"ok", "no_forest"}
       /\ setParsed(r)
  /\ pc' = "parsed"
  /\ UNCHANGED <<bot, locals, utterances, GRAMMAR,
                 POS_TAGGER, cfgFile, hypotheses, pos,
                 exc, returned>>

\* add_utterance after the constructor: append, log, return
AppendUtteranceFirst ==
  /\ pc = "parsed"
  /\ utterances' = <<utt>> \o utterances
  /\ returned' = utt
  /\ pc' = "idle"
  /\ UNCHANGED <<bot, locals, GRAMMAR, POS_TAGGER, cfgFile, hypotheses, utt,
                 pos, exc>>

AppendUtterance ==
  /\ pc = "parsed"
  /\ utterances' = Append(utterances, utt)
  /\ returned' = utt
  /\ pc' = "idle"
  /\ UNCHANGED <<bot, locals, GRAMMAR, POS_TAGGER, cfgFile, hypotheses, utt,
                 pos, exc>>

Next ==
  \/ \E hyps \in MainInputs : Call(hyps)
  \/ Choose
  \/ ChooseRaises
  \/ Tokenize
  \/ TokenizeRaises
  \/ TaggerInitRaises
  \/ Tag
  \/ TagRaises
  \/ ExtendGrammar
  \/ Parse
  \/ ParseExcept
  \/ AppendUtterance

Spec == Init /\ [][Next]_vars

\* ------------------------------------------------------------------------
\* The Hypothesis Selector on its own
\* ------------------------------------------------------------------------
SelInit ==
  /\ utterances = <<>>
  /\ GRAMMAR = <<>>
  /\ POS_TAGGER = "None"
  /\ cfgFile = goodCfg
  /\ hypotheses \in SelInputs
  /\ pc = "called"
  /\ utt = [NoUtterance EXCEPT !.turn = 0]
  /\ pos = <<>>
  /\ exc = "none"
  /\ returned = NoUtterance
  /\ locals = NoLocals
  /\ bot = NoBot

SelNext == Choose \/ ChooseRaises

SpecSel == SelInit /\ [][SelNext]_vars

\* ------------------------------------------------------------------------
\* The Token Normalizer on its own: Utterance._tokenize, step by step
\* ------------------------------------------------------------------------
TokInit ==
  /\ utterances = <<>>
  /\ GRAMMAR = <<>>
  /\ POS_TAGGER = "None"
  /\ cfgFile = goodCfg
  /\ hypotheses = <<>>
  /\ pc = "created"
  /\ \E t \in TokInputs :
       utt = [NoUtterance EXCEPT !.turn = 0,
                                 !.hypothesis = UtteranceHypothesis(t, one)]
  /\ pos = <<>>
  /\ exc = "none"
  /\ returned = NoUtterance
  /\ locals = NoLocals
  /\ bot = NoBot

\* `for o in openers`
StripOpeners ==
  /\ pc = "created"
  /\ locals' = [NoLocals EXCEPT
                  !.transcript = stripOpeners(utt.hypothesis.transcript, openers)]
  /\ pc' = "openers_stripped"
  /\ UNCHANGED <<bot, utterances, GRAMMAR, POS_TAGGER, cfgFile, hypotheses, utt,
                 pos, exc, returned>>

\* `for i in introductions` runs to its end
StripIntroductions ==
  /\ pc = "openers_stripped"
  /\ LET r == stripIntroductions(
                [raised |-> FALSE, transcript |-> locals.transcript],
                introductions)
     IN /\ ~r.raised
        /\ locals' = [locals EXCEPT !.transcript = r.transcript]
  /\ pc' = "introductions_stripped"
  /\ UNCHANGED <<bot, utterances, GRAMMAR, POS_TAGGER, cfgFile, hypotheses, utt,
                 pos, exc, returned>>

\* tmp.split()[0] raises IndexError in `for i in introductions`
StripIntroductionsRaises ==
  /\ pc = "openers_stripped"
  /\ stripIntroductions([raised |-> FALSE, transcript |-> locals.transcript],
                        introductions).raised
  /\ pc' = "raised"
  /\ exc' = "normalization"
  /\ UNCHANGED <<bot, utterances, GRAMMAR, POS_TAGGER, cfgFile, hypotheses, utt,
                 pos, returned, locals>>

\* tokens_raw = transcript.replace("'", " ").split() and the replacements
\* of the contraction fragments
ExpandContractions ==
  /\ pc = "introductions_stripped"
  /\ locals' = [locals EXCEPT
                  !.tokens_raw =
                    expandContractions(
                      split(replace(locals.transcript, <<"'">>, <<" ">>)))]
  /\ pc' = "expanded"
  /\ UNCHANGED <<bot, utterances, GRAMMAR, POS_TAGGER, cfgFile, hypotheses, utt,
                 pos, exc, returned>>

\* pos_tag is called when a token follows the first 's'
tagLookedUp(tokens_raw) ==
  /\ inList(tokens_raw, <<"s">>)
  /\ index(tokens_raw, <<"s">>) < Len(tokens_raw)

\* the `if 's' in tokens_raw` block, `return tokens_raw`, and
\* self._tokens = self._clean(...)
ResolveS ==
  /\ pc = "expanded"
  /\ \E stag \in sTags :
       /\ ~tagLookedUp(locals.tokens_raw) => stag = NoTag
       /\ locals' = [locals EXCEPT
                       !.tokens_raw = resolveS(locals.tokens_raw, stag),
                       !.tag = stag]
  /\ utt' = [utt EXCEPT !.tokens = _clean(locals'.tokens_raw),
                        !.normalized = _clean(locals'.tokens_raw)]
  /\ pc' = "normalized"
  /\ UNCHANGED <<bot, utterances, GRAMMAR, POS_TAGGER, cfgFile, hypotheses, pos,
                 exc, returned>>

TokNext ==
  \/ StripOpeners
  \/ StripIntroductions
  \/ StripIntroductionsRaises
  \/ ExpandContractions
  \/ ResolveS

SpecTok == TokInit /\ [][TokNext]_vars

\* ------------------------------------------------------------------------
\* The Parser on its own: Parser(utterance) for one utterance's tokens
\* ------------------------------------------------------------------------
ParseInit ==
  /\ utterances = <<>>
  /\ GRAMMAR = <<>>
  /\ POS_TAGGER = "None"
  /\ cfgFile \in CfgFiles
  /\ hypotheses = <<>>
  /\ pc = "normalized"
  /\ \E t \in ParseInputs :
       utt = [NoUtterance EXCEPT !.turn = 0, !.tokens = t, !.normalized = t]
  /\ pos = <<>>
  /\ exc = "none"
  /\ returned = NoUtterance
  /\ locals = NoLocals
  /\ bot = NoBot

ParseNext ==
  \/ TaggerInitRaises
  \/ Tag
  \/ TagRaises
  \/ ExtendGrammar
  \/ Parse
  \/ ParseExcept

SpecParse == ParseInit /\ [][ParseNext]_vars

\* ------------------------------------------------------------------------
\* RLChatbot (src/Chatbot.py): reply, one call after the other
\* ------------------------------------------------------------------------
\* the results of utils.thought_types_from_brain: any of seven thought types,
\* and always 'trust'
thought_types_from_brain ==
  { s \cup {"trust"} :
      s \in SUBSET {"overlaps", "entity_novelty", "subject_gaps", "object_gaps",
                    "statement_novelty", "complement_conflict",
                    "negation_conflicts"} }

\* RLChatbot.__update_thought_utility__ with count_statements() = state,
\* on the chatbot b after `self.__turns += 1` of __parse_input__;
\* brain_states[-2] raises IndexError on a list of one entry
update_thought_utilityUnrecorded(b, state) ==
  IF b.thought = "None" THEN b
  ELSE IF Len(b.brain_states) < 2 THEN [b EXCEPT !.raised = "IndexError"]
  ELSE [b EXCEPT
          !.selector.updates = @ + 1,
          !.selector.reward = b.brain_states[Len(b.brain_states)]
                                - b.brain_states[Len(b.brain_states) - 1]]

update_thought_utility(b, state) ==
  LET brain_states == Append(b.brain_states, state)
      n == Len(brain_states)
  IN IF b.thought = "None" THEN [b EXCEPT !.brain_states = brain_states]
     ELSE IF n < 2
          THEN [b EXCEPT !.brain_states = brain_states, !.raised = "IndexError"]
     ELSE [b EXCEPT !.brain_states = brain_states,
                    !.selector.updates = @ + 1,
                    !.selector.reward = brain_states[n] - brain_states[n - 1]]

BotInit ==
  /\ utterances = <<>>
  /\ GRAMMAR = <<>>
  /\ POS_TAGGER = "None"
  /\ cfgFile = goodCfg
  /\ hypotheses = <<>>
  /\ pc = "idle"
  /\ utt = NoUtterance
  /\ pos = <<>>
  /\ exc = "none"
  /\ returned = NoUtterance
  /\ locals = NoLocals
  /\ bot = NoBot

\* add_utterance, analyze, the brain or the replier raises, or the
\* utterance type is neither question nor statement: no utility update
ReplyRaises ==
  /\ bot.turns < MaxReplies
  /\ bot' = [bot EXCEPT !.turns = @ + 1, !.raised = "external"]
  /\ UNCHANGED <<utterances, GRAMMAR, POS_TAGGER, cfgFile, hypotheses, pc, utt,
                 pos, exc, returned, locals>>

\* capsule is None: "I could not parse that"
ReplyError ==
  /\ bot.turns < MaxReplies
  /\ \E state \in 0..MaxStatements :
       bot' = update_thought_utility(
                [bot EXCEPT !.turns = @ + 1, !.raised = "none"], state)
  /\ UNCHANGED <<utterances, GRAMMAR, POS_TAGGER, cfgFile, hypotheses, pc, utt,
                 pos, exc, returned, locals>>

\* the QUESTION branch: query the brain, update the utility, answer
ReplyQuestion ==
  /\ bot.turns < MaxReplies
  /\ \E state \in 0..MaxStatements :
       bot' = update_thought_utility(
                [bot EXCEPT !.turns = @ + 1, !.raised = "none"], state)
  /\ UNCHANGED <<utterances, GRAMMAR, POS_TAGGER, cfgFile, hypotheses, pc, utt,
                 pos, exc, returned, locals>>

\* the STATEMENT branch: update the brain, update the utility, then
\* self.__thought = self.__selector.select_action(all_thoughts)
ReplyStatement ==
  /\ bot.turns < MaxReplies
  /\ \E state \in 0..MaxStatements :
       \E all_thoughts \in thought_types_from_brain :
       \E thought \in all_thoughts \cup {"None"} :
         LET b == update_thought_utility(
                    [bot EXCEPT !.turns = @ + 1, !.raised = "none"], state)
         IN bot' = IF b.raised = "IndexError" THEN b
                   ELSE [b EXCEPT
                           !.thought = thought,
                           !.selector.selected =
                             IF thought = "None" THEN @ ELSE @ \cup {thought}]
  /\ UNCHANGED <<utterances, GRAMMAR, POS_TAGGER, cfgFile, hypotheses, pc, utt,
                 pos, exc, returned, locals>>

BotNext ==
  \/ ReplyRaises
  \/ ReplyError
  \/ ReplyQuestion
  \/ ReplyStatement

SpecBot == BotInit /\ [][BotNext]_vars

\* ------------------------------------------------------------------------
\* Properties
\* ------------------------------------------------------------------------
failedOutcomes ==
  {"compile_error", "index_error", "coverage_error", "parser_error",
   "extract_error"}

\* C1: Parser never raises. Once the tags are in place, the try block of
\* Parser._parse always has a result to return, for every token list (the
\* empty one included) and every grammar text (malformed or not covering
\* the tokens included); whenever compilation, parsing or the extraction
\* fails the result is the empty forest with the empty constituent map.
C1_ParserNeverRaises ==
  /\ [](pc = "extended" => tryBlock(utt.cfg, utt.tokens, pos) # {})
  /\ [][pc = "extended" =>
          /\ pc' = "parsed"
          /\ exc' = "none"
          /\ utt'.outcome \in failedOutcomes \cup {"ok", "no_forest"}
          /\ (utt'.outcome \in failedOutcomes
                \/ ~compiles(utt.cfg)
                \/ utt.tokens = <<>>
                \/ ~covers(utt.cfg, stripLast(utt.tokens)))
               => (utt'.forest = <<>> /\ utt'.constituents = <<>>)]_vars

C1_Witness ==
  /\ pc = "parsed"
  /\ cfgFile = goodCfg
  /\ utt.outcome = "compile_error"
  /\ utt.tokens # <<>>
  /\ utt.forest = <<>> /\ utt.constituents = <<>>

stageRank(stage) ==
  CASE stage = "created" -> 1
    [] stage = "normalized" -> 2
    [] stage = "tagged" -> 3
    [] stage = "extended" -> 4
    [] stage = "parsed" -> 5
    [] OTHER -> 0

\* C2: the lifecycle created -> normalized -> tagged -> grammar-extended ->
\* parsed never reverses and always reaches parsed: from a normalized
\* utterance every step (tagger start-up failures aside) moves to the next
\* stage, also when tagging or parsing fails, and no exception leaves
\* add_utterance.
C2_LifecycleReachesParsed ==
  [][(pc \in {"normalized", "tagged", "extended"} /\ exc' # "tagger_init")
       => (pc' # "raised" /\ stageRank(pc') = stageRank(pc) + 1)]_vars

\* the lines of a grammar text
ruleLines(text) ==
  LET lines == splitLines(text, <<>>)
  IN { lines[i] : i \in 1..Len(lines) }

\* C3 as stated: the grammar grows monotonically across utterances, every
\* rule of an earlier utterance's grammar text is in every later one.
C3_GrammarGrowsAcrossUtterances ==
  \A i, j \in 1..Len(utterances) :
    i < j => ruleLines(utterances[i].cfg) \subseteq ruleLines(utterances[j].cfg)

\* the text of a terminal rule for one of the given tokens
isRuleFor(line, tokens) ==
  \E i \in 1..Len(tokens) : \E tag \in Tags :
    line \o <<"\n">> = new_rule(tokens[i], tag)

\* C3 amended: the shared grammar is process-wide but does not grow. Once
\* loaded it stays the base text; the grammar text of every utterance is
\* that base text followed by terminal rules of that utterance's own tokens
\* only, so base rules are never lost and the rules added for utterance k
\* are not carried over to later utterances.
C3_BaseGrammarShared ==
  /\ GRAMMAR \in {<<>>, cfgFile}
  /\ \A i \in 1..Len(utterances) :
       LET u == utterances[i]
           added == SubSeq(u.cfg, Len(cfgFile) + 1, Len(u.cfg))
       IN /\ startswith(u.cfg, cfgFile)
          /\ \A line \in ruleLines(added) :
               line = <<>> \/ isRuleFor(line, u.normalized)

C3_Witness ==
  /\ Len(utterances) = 2
  /\ utterances[1].normalized # <<>>
  /\ utterances[1].cfg # cfgFile
  /\ ~(ruleLines(utterances[1].cfg) \subseteq ruleLines(utterances[2].cfg))

noDuplicateLines(text) ==
  LET lines == splitLines(text, <<>>)
  IN \A i, j \in 1..Len(lines) : i < j => lines[i] # lines[j]

\* C4: the grammar text used for a parse never holds two identical lines,
\* whatever (word, tag) pairs repeat within and across utterances (the base
\* grammar files have no duplicate lines).
C4_NoDuplicateRules ==
  /\ noDuplicateLines(cfgFile)
  /\ pc \in {"extended", "parsed"} => noDuplicateLines(utt.cfg)
  /\ \A i \in 1..Len(utterances) : noDuplicateLines(utterances[i].cfg)

C4_Witness ==
  /\ pc = "extended"
  /\ Len(pos) = 2 /\ pos[1] = pos[2]
  /\ Len(utterances) = 1 /\ utterances[1].normalized = utt.normalized
  /\ utt.cfg # cfgFile

\* C5: the Token Normalizer is total: for every transcript _tokenize
\* returns a token sequence, it never raises.
C5_TokenizeTotal ==
  [][pc = "created" => (pc' = "normalized" /\ exc' = "none")]_vars

\* C6: an empty hypothesis list and a hypothesis with an empty transcript
\* are rejected during hypothesis selection, before normalization.
C6_FailFastOnEmptyInput ==
  [][(pc = "called"
        /\ (hypotheses = <<>>
              \/ \E i \in 1..Len(hypotheses) : hypotheses[i].transcript = <<>>))
       => (pc' = "raised" /\ exc' = "selection")]_vars

\* C7: for every non-empty hypothesis list the selector returns exactly one
\* hypothesis, and it is one of the inputs with its transcript name-patched
\* and its confidence reweighted.
C7_SelectsAnInput ==
  [][(pc = "called" /\ hypotheses # <<>>) =>
       /\ pc' = "created"
       /\ \E i \in 1..Len(hypotheses) :
            utt'.hypothesis = _patch_names(hypotheses)[i]]_vars

C7_Witness ==
  /\ pc = "created"
  /\ Len(hypotheses) = 2
  /\ \A i \in 1..2 : utt.hypothesis # hypotheses[i]
  /\ \E i \in 1..2 : utt.hypothesis = _patch_names(hypotheses)[i]

\* C8: the selected hypothesis has the maximum reweighted confidence, and
\* among several with that maximum it is the first in input order.
C8_MaxConfidenceFirstWins ==
  pc = "created" =>
    LET p == _patch_names(hypotheses)
    IN \E i \in 1..Len(p) :
         /\ utt.hypothesis = p[i]
         /\ \A j \in 1..Len(p) : fracLeq(p[j].confidence, p[i].confidence)
         /\ \A j \in 1..(i - 1) : fracLess(p[j].confidence, p[i].confidence)

C8_Witness ==
  /\ pc = "created"
  /\ Len(hypotheses) = 2
  /\ LET p == _patch_names(hypotheses)
     IN /\ p[1].confidence = p[2].confidence
        /\ p[1].transcript # p[2].transcript
        /\ utt.hypothesis = p[1]

\* the number of hypotheses whose patched transcript contains the name
hypothesesWith(hyps, name) ==
  Cardinality({ i \in 1..Len(hyps) :
                  contains(_patch_names(hyps)[i].transcript, name) })

\* C9 as stated: a matched name that appears in at least as many hypotheses
\* as another gets at least the other's factor.
C9_MonotonicInHypothesisCount ==
  pc = "created" =>
  LET names == matchedNames(hypotheses)
  IN \A a, b \in 1..Len(names) :
       hypothesesWith(hypotheses, names[a]) >= hypothesesWith(hypotheses, names[b])
         => fracLeq(nameFactor(names, names[b]), nameFactor(names, names[a]))

\* C9 amended: monotonic in the number of matches. A name matched at least
\* as often as another, every matched word counted (also repeats inside one
\* hypothesis), gets at least the other's factor; a hypothesis that contains
\* only names with the largest number of matches keeps its confidence.
C9_MonotonicInMatchCount ==
  pc = "created" =>
  LET names == matchedNames(hypotheses)
      p == _patch_names(hypotheses)
  IN /\ \A a, b \in 1..Len(names) :
          count(names, names[a]) >= count(names, names[b])
            => fracLeq(nameFactor(names, names[b]), nameFactor(names, names[a]))
     /\ \A i \in 1..Len(hypotheses) :
          (\A a \in 1..Len(names) :
             contains(p[i].transcript, names[a])
               => count(names, names[a]) = max_freq(names))
            => p[i].confidence = frac(hypotheses[i].confidence[1],
                                      hypotheses[i].confidence[2])

C9_Witness ==
  /\ pc = "created"
  /\ LET names == matchedNames(hypotheses)
     IN \E a, b \in 1..Len(names) :
          /\ count(names, names[a]) > count(names, names[b])
          /\ hypothesesWith(hypotheses, names[a])
               <= hypothesesWith(hypotheses, names[b])
          /\ fracLess(nameFactor(names, names[b]), nameFactor(names, names[a]))

\* C10: utterances[i].turn = i (counting from 0) for every entry, the list
\* changes only by a completed call appending its utterance at the end, and
\* the utterance returned is the last entry.
C10_TurnIsIndex ==
  /\ [](\A i \in 1..Len(utterances) : utterances[i].turn = i - 1)
  /\ [][\/ utterances' = utterances
        \/ /\ pc = "parsed"
           /\ utterances' = Append(utterances, returned')
           /\ returned' = utt]_vars

C10_Witness ==
  /\ pc = "idle"
  /\ Len(utterances) = 2
  /\ returned = utterances[2]
  /\ utterances[1].turn = 0 /\ utterances[2].turn = 1

\* C11 as stated: the turn index is 1-based, the k-th utterance added to a
\* chat (k = 1, 2, 3, ...) has turn index k.
C11_TurnOneBased ==
  \A k \in 1..Len(utterances) : utterances[k].turn = k

\* C11 amended: the turn index is 0-based and monotonic per chat. The
\* utterance under construction carries the number of utterances added
\* before it, so the k-th utterance added has turn index k - 1, the first
\* one has turn index 0 and every later one has the next integer.
C11_TurnZeroBased ==
  /\ pc \in {"called", "created", "normalized", "tagged", "extended", "parsed"}
       => utt.turn = Len(utterances)
  /\ utterances # <<>> => utterances[1].turn = 0
  /\ \A k \in 2..Len(utterances) :
       utterances[k].turn = utterances[k - 1].turn + 1

C11_Witness ==
  /\ pc = "parsed"
  /\ Len(utterances) = 1
  /\ utterances[1].turn = 0
  /\ utt.turn = 1

\* C15: contraction expansion yields the documented token sequences:
\* "I'm happy" gives [I, am, happy]; "that's a chair" gives
\* [that, is, a, chair] when the token after 's' is tagged DT;
\* "Thomas's book" gives [Thomas, book] when the token after 's' is tagged
\* NN; none of the three makes the tokenizer raise.
C15_ContractionExamples ==
  LET transcript == utt.hypothesis.transcript
  IN /\ pc = "raised"
          => transcript \notin {tImHappy, tThatsAChair, tThomassBook}
     /\ (pc = "normalized" /\ transcript = tImHappy)
          => utt.tokens = <<<<"I">>, <<"a", "m">>, <<"h", "a", "p", "p", "y">>>>
     /\ (pc = "normalized" /\ transcript = tThatsAChair /\ locals.tag = tagDT)
          => utt.tokens =
               <<<<"t", "h", "a", "t">>, <<"i", "s">>, <<"a">>, <<"c", "h", "a", "i", "r">>>>
     /\ (pc = "normalized" /\ transcript = tThomassBook /\ locals.tag = tagNN)
          => utt.tokens =
               <<<<"T", "h", "o", "m", "a", "s">>, <<"b", "o", "o", "k">>>>

C15_Witness ==
  /\ pc = "normalized"
  /\ utt.hypothesis.transcript = tImHappy
  /\ locals.tokens_raw = <<<<"I">>, <<"a", "m">>, <<"h", "a", "p", "p", "y">>>>
  /\ utt.tokens = locals.tokens_raw

\* the transcript starts with none of the given phrases, in original case
\* or lowercase
startsWithNone(transcript, phrases) ==
  \A i \in 1..Len(phrases) :
    /\ ~startswith(transcript, phrases[i])
    /\ ~startswith(transcript, lower(phrases[i]))

prefixFree(transcript) ==
  /\ startsWithNone(transcript, openers)
  /\ startsWithNone(transcript, introductions)

\* C16: the opener/introduction stripping step leaves a prefix-free
\* transcript unchanged: for a transcript that starts with no opener and no
\* introduction phrase (original case or lowercase) neither loop changes it
\* or raises, so applying the step again to its result gives that result.
C16_StripIdempotentOnPrefixFree ==
  /\ [][(pc = "created" /\ prefixFree(utt.hypothesis.transcript))
          => (pc' = "openers_stripped"
                /\ locals'.transcript = utt.hypothesis.transcript)]_vars
  /\ [][(pc = "openers_stripped" /\ prefixFree(utt.hypothesis.transcript))
          => (pc' = "introductions_stripped"
                /\ locals'.transcript = utt.hypothesis.transcript)]_vars
  /\ []((pc = "introductions_stripped"
           /\ prefixFree(utt.hypothesis.transcript))
          => stripIntroductions(
               [raised |-> FALSE,
                transcript |-> stripOpeners(locals.transcript, openers)],
               introductions)
               = [raised |-> FALSE, transcript |-> locals.transcript])

C16_Witness ==
  /\ pc = "introductions_stripped"
  /\ prefixFree(utt.hypothesis.transcript)
  /\ \E i \in 1..Len(introductions) :
       contains(utt.hypothesis.transcript, introductions[i])
  /\ locals.transcript = utt.hypothesis.transcript

\* s without its first n characters
dropFirst(s, n) == SubSeq(s, n + 1, Len(s))

\* C17: opener stripping removes an opener phrase only at the start: when
\* the transcript begins with an opener phrase (original case or
\* lowercase), the result is the transcript without that leading phrase,
\* every character after it unchanged, later occurrences of the phrase kept.
C17_OpenerStrippedAtStartOnly ==
  [][pc = "created" =>
       \A i \in 1..Len(openers) :
         \A o \in {openers[i], lower(openers[i])} :
           startswith(utt.hypothesis.transcript, o)
             => locals'.transcript
                  = dropFirst(utt.hypothesis.transcript, Len(o))]_vars

\* C18: a leading introduction phrase, in its original-case or its
\* lowercase form, is stripped when the word right after it is one of
\* what/that/who/when/where/which compared case-insensitively, and is left
\* in place when the following word is not one of these.
C18_IntroductionStrippedBeforeQuestionWord ==
  [][pc = "openers_stripped" =>
       \A i \in 1..Len(introductions) :
         \A phrase \in {introductions[i], lower(introductions[i])} :
           LET rest == dropFirst(locals.transcript, Len(phrase))
           IN (startswith(locals.transcript, phrase) /\ split(rest) # <<>>)
                => /\ pc' = "introductions_stripped"
                   /\ locals'.transcript
                        = IF lower(split(rest)[1]) \in questionWords
                          THEN rest ELSE locals.transcript]_vars

\* C19: disambiguation of a bare 's' token (the first one in the list): if
\* the tag of the token right after it is DT, JJ, IN or starts with V, the
\* 's' is replaced by 'is' at the same position and the token count is
\* unchanged; for any other tag, and when the tag lookup fails (also when
\* no token follows the 's'), it is removed and the token count decreases
\* by one. All other tokens keep their relative order; without a bare 's'
\* the list is unchanged.
C19_BareSResolved ==
  [][pc = "expanded" =>
       LET before == locals.tokens_raw
           after == locals'.tokens_raw
           tag == locals'.tag
       IN IF ~inList(before, <<"s">>) THEN after = before
          ELSE LET i == index(before, <<"s">>)
               IN IF /\ i < Len(before)
                     /\ tag # NoTag
                     /\ (tag \in {tagDT, <<"J", "J">>, tagIN} \/ tag[1] = "V")
                  THEN /\ Len(after) = Len(before)
                       /\ after[i] = <<"i", "s">>
                       /\ \A j \in 1..Len(before) :
                            j # i => after[j] = before[j]
                  ELSE /\ Len(after) = Len(before) - 1
                       /\ \A j \in 1..(i - 1) : after[j] = before[j]
                       /\ \A j \in i..Len(after) : after[j] = before[j + 1]]_vars

C19_Witness ==
  /\ pc = "normalized"
  /\ locals.tag = tagVB
  /\ locals.tokens_raw =
       <<<<"t", "h", "a", "t">>, <<"i", "s">>, <<"t", "h", "a", "t">>, <<"s">>>>

\* the entry the constituent map should hold for a subtree
entryFor(entry, subtree) ==
  /\ entry.label = subtree.label
  /\ entry.structure = subtree
  /\ entry.raw = join(<<"-">>, leaves(subtree))

\* C12 as stated: for a non-empty forest the constituent map has exactly
\* one entry per immediate child subtree of the first parse tree, in
\* left-to-right order, with that child's label, the child itself and its
\* leaf tokens joined by single hyphens; for an empty forest it is empty.
C12_EntryPerChild ==
  pc = "parsed" =>
    IF utt.forest = <<>> THEN utt.constituents = <<>>
    ELSE LET children == utt.forest[1].kids
         IN /\ Len(utt.constituents) = Len(children)
            /\ \A n \in 1..Len(children) :
                 entryFor(utt.constituents[n], children[n])

\* the children of the immediate children of a tree, left to right
RECURSIVE childrenOfAll(_)
childrenOfAll(trees) ==
  IF trees = <<>> THEN <<>> ELSE trees[1].kids \o childrenOfAll(Tail(trees))

\* C12 amended: for a non-empty returned forest the constituent map has
\* exactly one entry per child of the immediate child subtrees of the first
\* parse tree (the first tree's grandchildren), keyed in left-to-right
\* order, with that subtree's label, the subtree itself and its leaf tokens
\* joined by single hyphens without a trailing hyphen. When an entry cannot
\* be built the forest and the map are both returned empty; for an empty
\* forest the map is empty.
C12_EntryPerGrandchild ==
  pc = "parsed" =>
    /\ utt.outcome = "extract_error"
         => (utt.forest = <<>> /\ utt.constituents = <<>>)
    /\ IF utt.forest = <<>> THEN utt.constituents = <<>>
       ELSE LET branches == childrenOfAll(utt.forest[1].kids)
            IN /\ Len(utt.constituents) = Len(branches)
               /\ \A n \in 1..Len(branches) :
                    entryFor(utt.constituents[n], branches[n])

C12_Witness ==
  /\ pc = "parsed"
  /\ utt.outcome = "ok"
  /\ Len(utt.forest[1].kids) = 1
  /\ Len(utt.constituents) = 2
  /\ utt.constituents[1].structure = utt.forest[1].kids[1].kids[1]

\* C13: when the last token of an utterance ends in '?', the '?' is
\* stripped from the word quoted in the terminal rule built for that token
\* and from the token handed to the parser (whenever the grammar compiles
\* and the parser is called), so the rule word and the parsed token are
\* the same string without '?', a terminal of the grammar text.
C13_QuestionMarkStrippedTwice ==
  /\ [][(pc = "tagged" /\ utt.tokens # <<>>
           /\ endswith(utt.tokens[Len(utt.tokens)], "?"))
          => LET n == Len(utt.tokens)
                 word == dropLast(utt.tokens[n])
             IN /\ ~inList(word, "?")
                /\ new_rule(pos[n][1], pos[n][2])
                     = ruleTag(pos[n][2]) \o arrowQuote \o word \o quoteNewline
                /\ contains(utt'.cfg, new_rule(pos[n][1], pos[n][2]))]_vars
  /\ [][(pc = "extended" /\ utt.tokens # <<>>
           /\ endswith(utt.tokens[Len(utt.tokens)], "?")
           /\ utt'.outcome # "compile_error")
          => LET n == Len(utt.tokens)
                 word == dropLast(utt.tokens[n])
             IN /\ utt'.tokens = [utt.tokens EXCEPT ![n] = word]
                /\ word \in terminals(utt.cfg)]_vars

C13_Witness ==
  /\ pc = "parsed"
  /\ utt.outcome = "ok"
  /\ Len(utt.tokens) = 2
  /\ utt.normalized[2] = <<"d", "o", "g", "?">>
  /\ utt.tokens[2] = <<"d", "o", "g">>
  /\ utt.tokens[2] \in terminals(utt.cfg)

\* C14: the tagger override rules hold for every tag sequence the primary
\* tagger may return: after the override step every token exactly equal to
\* 'like' carries the tag VB in the primary sequence, and if the first
\* tagged token is exactly 'Does' its tag is VBD; every other pair is one
\* the tagger may have produced.
C14_TaggerOverrides ==
  pc = "tagged" =>
    /\ Len(pos) = Len(utt.tokens)
    /\ \A i \in 1..Len(pos) :
         /\ pos[i][1] = utt.tokens[i]
         /\ utt.tokens[i] = <<"l", "i", "k", "e">> => pos[i][2] = tagVB
         /\ (i = 1 /\ utt.tokens[i] = <<"D", "o", "e", "s">>)
              => pos[i][2] = tagVBD
         /\ (utt.tokens[i] # <<"l", "i", "k", "e">>
               /\ ~(i = 1 /\ utt.tokens[i] = <<"D", "o", "e", "s">>))
              => pos[i][2] \in possibleTags(utt.tokens[i])

C14_Witness ==
  /\ pc = "tagged"
  /\ pos = << <<<<"D", "o", "e", "s">>, tagVBD>>,
              <<<<"l", "i", "k", "e">>, tagVB>> >>

\* C20: grammar extension adds one rule per token: after the grammar is
\* built for an utterance, for every (word, tag) pair of the primary tag
\* sequence the grammar text has a production line exactly equal to the
\* rule TAG -> 'word' built for the pair; a rule is left out only if that
\* identical line was already present (the base grammar text ending with a
\* line break).
C20_OneRuleLinePerToken ==
  [][(pc = "tagged" /\ endswith(cfgFile, "\n")) =>
       \A i \in 1..Len(pos) :
         dropLast(new_rule(pos[i][1], pos[i][2])) \in ruleLines(utt'.cfg)]_vars

\* C21: possessive tags are rewritten consistently: for every token whose
\* tag ends with '$', the left-hand nonterminal of the rule added for that
\* token is the tag with '$' dropped and POS appended, and the tag stored
\* for that token in the tag sequence is that same nonterminal.
C21_PossessiveTagConsistent ==
  [][pc = "tagged" =>
       \A i \in 1..Len(pos) :
         endswith(pos[i][2], "$") =>
           LET nonterminal == dropLast(pos[i][2]) \o POSsuffix
           IN /\ contains(utt'.cfg,
                          nonterminal \o arrowQuote \o ruleWord(pos[i][1])
                            \o quoteNewline)
              /\ pos'[i] = <<pos[i][1], nonterminal>>]_vars

\* C22: when the grammar compiles and the parser finds n derivations, the
\* returned forest holds those n trees in the order found: it is empty if
\* and only if n = 0 (the outcome no_forest), and for n >= 2 all trees stay
\* in the forest while the constituent map is that of the first one.
C22_ForestHoldsAllDerivations ==
  (pc = "parsed" /\ utt.outcome \in {"ok", "no_forest", "extract_error"}) =>
    /\ utt.forest = <<>> <=> utt.outcome = "no_forest"
    /\ utt.forest \in forests(utt.tokens, pos)
    /\ utt.forest # <<>>
         => utt.constituents = treeEntries(utt.forest[1].kids)

\* the smallest edit distance from the word to a name of the list
minDistance(word, names) ==
  CHOOSE d \in { edit_distance(names[j], word) : j \in 1..Len(names) } :
    \A j \in 1..Len(names) : d <= edit_distance(names[j], word)

\* the first name of the list at that distance
firstClosest(word, names) ==
  LET d == minDistance(word, names)
  IN names[CHOOSE j \in 1..Len(names) :
             /\ edit_distance(names[j], word) = d
             /\ \A k \in 1..(j - 1) : edit_distance(names[k], word) # d]

\* C23: name patching: in every hypothesis each whitespace-delimited word
\* whose first character is uppercase is replaced by the name of the name
\* list at minimum edit distance (the first such name on ties) exactly when
\* that distance is <= 2; all other words are kept, and the transcript is
\* the resulting words joined by single spaces.
C23_NamePatching ==
  pc = "created" =>
    LET patched == _patch_names(hypotheses)
    IN \A i \in 1..Len(hypotheses) :
         LET words == split(hypotheses[i].transcript)
             expected ==
               [k \in 1..Len(words) |->
                  IF isupper(words[k][1])
                       /\ minDistance(words[k], friends) <= 2
                  THEN firstClosest(words[k], friends) ELSE words[k]]
         IN patched[i].transcript = join(<<" ">>, expected)

C23_Witness ==
  /\ pc = "created"
  /\ Len(hypotheses) = 1
  /\ hypotheses[1].transcript = tLekHelloDog
  /\ edit_distance(friends[1], <<"L", "e", "k">>)
       = edit_distance(friends[2], <<"L", "e", "k">>)
  /\ utt.hypothesis.transcript
       = <<"L", "e", "n", "k", "a", " ", "H", "e", "l", "l", "o", " ", "d", "o", "g">>

\* the replacements made in the hypotheses: <<i, k, name>> when word k of
\* hypothesis i was replaced by the name
replacements(hyps) ==
  { r \in UNION { LET words == split(hyps[i].transcript)
                  IN { <<i, k, firstClosest(words[k], friends)>> :
                         k \in { k \in 1..Len(words) :
                                   /\ isupper(words[k][1])
                                   /\ minDistance(words[k], friends) <= 2 } } :
                  i \in 1..Len(hyps) } : TRUE }

\* how many words were replaced by the name
countIn(reps, name) == Cardinality({ r \in reps : r[3] = name })

matchCount(hyps, name) == countIn(replacements(hyps), name)

\* the names that replaced a word
replacing(reps) == { r[3] : r \in reps }

\* the largest number of replacements by one name
maxCount(reps) ==
  LET counts == { countIn(reps, name) : name \in replacing(reps) }
  IN CHOOSE c \in counts : \A d \in counts : d <= c

\* confidence times count(name) / max count for every name of the set
timesFactors(confidence, reps, names) ==
  LET max == maxCount(reps)
      times[ns \in SUBSET names] ==
        IF ns = {} THEN confidence
        ELSE LET name == CHOOSE name \in ns : TRUE
             IN fracMul(times[ns \ {name}], <<countIn(reps, name), max>>)
  IN times[names]

\* C24: reweighting formula: the confidence of each hypothesis after
\* reweighting is its original confidence multiplied, for every distinct
\* matched name contained in its patched transcript, by count(name) / max
\* count; a hypothesis containing no matched name keeps its confidence,
\* and so does every hypothesis when no name was matched at all.
C24_ReweightingFormula ==
  pc = "created" =>
    LET patched == _patch_names(hypotheses)
        reps == replacements(hypotheses)
    IN \A i \in 1..Len(hypotheses) :
         LET contained == { name \in replacing(reps) :
                              contains(patched[i].transcript, name) }
         IN /\ patched[i].confidence
                 = timesFactors(hypotheses[i].confidence, reps, contained)
            /\ contained = {} =>
                 patched[i].confidence = hypotheses[i].confidence

C24_Witness ==
  /\ pc = "created"
  /\ Len(hypotheses) = 2
  /\ matchCount(hypotheses, friends[1]) = 2
  /\ matchCount(hypotheses, friends[2]) = 1
  /\ hypotheses[2].confidence = one
  /\ _patch_names(hypotheses)[2].confidence = half
  /\ _patch_names(hypotheses)[1].confidence = hypotheses[1].confidence

\* C25 as stated: with exactly one hypothesis in the input, the returned
\* hypothesis has the name-patched transcript and exactly the input
\* confidence, whatever names its transcript contains.
C25_SingleHypothesisKeepsConfidence ==
  (pc = "created" /\ Len(hypotheses) = 1) =>
    /\ utt.hypothesis.transcript
         = join(<<" ">>, patchWords(hypotheses[1].transcript))
    /\ utt.hypothesis.confidence = hypotheses[1].confidence

\* C25 amended: with exactly one hypothesis in the input, the returned
\* hypothesis has the name-patched transcript; its confidence is the input
\* confidence multiplied, for every distinct name matched in the
\* transcript, by that name's number of matches over the largest number of
\* matches of a name, so it is the input confidence exactly when every
\* matched name is matched equally often (or none is matched).
C25_SingleHypothesisReweighted ==
  (pc = "created" /\ Len(hypotheses) = 1) =>
    LET reps == replacements(hypotheses)
        names == replacing(reps)
    IN /\ utt.hypothesis.transcript
            = join(<<" ">>, patchWords(hypotheses[1].transcript))
       /\ utt.hypothesis.confidence
            = timesFactors(hypotheses[1].confidence, reps, names)
       /\ utt.hypothesis.confidence = hypotheses[1].confidence
            <=> \A name \in names : countIn(reps, name) = maxCount(reps)

C25_Witness ==
  /\ pc = "created"
  /\ hypotheses = <<UtteranceHypothesis(tLenkaLenkaPiek, one)>>
  /\ utt.hypothesis = UtteranceHypothesis(tLenkaLenkaPiek, half)

\* C26: token/terminal agreement: every token of the sequence handed to
\* the recursive-descent parser is the quoted word of a terminal production
\* of that utterance's grammar text, wherever a '?' occurs in the sequence.
C26_TokensAreTerminals ==
  [][(pc = "extended" /\ utt.tokens # <<>> /\ utt'.outcome # "compile_error")
       => \A i \in 1..Len(utt'.tokens) :
            utt'.tokens[i] \in terminals(utt.cfg)]_vars

\* C27: after normalization the token sequence contains no bare
\* contraction fragment: no token of the Token Normalizer's output is
\* exactly 'm', 're', 'll', 't' or 's', however many contractions the
\* transcript contains.
C27_NoBareFragments ==
  pc = "normalized" =>
    \A i \in 1..Len(utt.tokens) :
      utt.tokens[i] \notin
        {<<"m">>, <<"r", "e">>, <<"l", "l">>, <<"t">>, <<"s">>}

\* C28: parsing leaves the utterance's token sequence unchanged: tagging,
\* grammar extension and parsing do not modify any element of
\* Utterance.tokens, so for every constructed utterance it is exactly the
\* sequence the Token Normalizer produced for the chosen transcript.
C28_TokensUnchangedByParsing ==
  /\ [][(pc \in {"normalized", "tagged", "extended"})
          => (utt'.tokens = utt.tokens)]_vars
  /\ [](\A i \in 1..Len(utterances) :
          utterances[i].tokens = utterances[i].normalized)

\* C29: add_utterance is atomic with respect to the chat log: when the
\* construction of the Utterance raises (hypothesis selection,
\* normalization, tagger initialization or tagging), the utterance list is
\* exactly what it was before the call, and the next call takes the turn
\* that equals the list index its utterance will get.
C29_AtomicOnRaise ==
  /\ [][(pc' = "raised" /\ pc # "raised")
          => /\ pc \in {"called", "created", "normalized"}
             /\ exc' \in {"selection", "normalization", "tagger_init",
                          "tagging"}
             /\ utterances' = utterances
             /\ returned' = NoUtterance]_vars
  /\ [][(pc \in {"called", "created", "normalized", "raised"})
          => (utterances' = utterances)]_vars
  /\ [][(pc = "raised" /\ pc' = "called")
          => (utt'.turn = Len(utterances) /\ utt'.turn = Len(utterances'))]_vars
  /\ [](pc = "raised"
          => \A i \in 1..Len(utterances) : utterances[i].turn + 1 = i)

C29_Witness ==
  /\ pc = "raised"
  /\ exc = "normalization"
  /\ Len(utterances) = 1
  /\ utt.turn = 1
  /\ utterances[1].turn = 0

\* C30: in RLChatbot, over any sequence of reply calls, a utility update
\* with a non-None last thought never finds fewer than two brain states
\* (no IndexError on brain_states[-2]), the reward it passes on is the
\* latest state minus the previous one, and the thought rewarded was
\* selected in an earlier statement turn.
C30_RewardAlwaysDefined ==
  /\ [](bot.raised # "IndexError")
  /\ [][(bot'.selector.updates # bot.selector.updates) =>
          (/\ Len(bot'.brain_states) >= 2
           /\ bot'.selector.reward
                = bot'.brain_states[Len(bot'.brain_states)]
                    - bot'.brain_states[Len(bot'.brain_states) - 1]
           /\ bot.thought # "None"
           /\ bot.thought \in bot.selector.selected)]_vars

\* a thought selected in one reply was rewarded in the next, with a
\* non-zero reward
C30_Witness ==
  /\ bot.selector.updates >= 1
  /\ Len(bot.brain_states) = 2
  /\ bot.selector.reward # 0
  /\ bot.raised = "none"

====
